---- MODULE Spec2Model ----
(***************************************************************************)
(* Green Meter App: the emissions calculator and the Streamlit session    *)
(* logic of app.py and app2.py.                                           *)
(*                                                                         *)
(* Numbers.  The Python code computes on floats.  The model computes on    *)
(* exact rationals <<n, d>> (d > 0, lowest terms), following the order of  *)
(* the operations of the source.  Activity measures and percentages are    *)
(* integers, as the widgets' values of the model are.                      *)
(***************************************************************************)
EXTENDS Integers, Sequences, FiniteSets, TLC

\* ---------------------------------------------------------------------
\* Exact rational arithmetic (Python float arithmetic, idealised)
\* ---------------------------------------------------------------------
Abs(n) == IF n < 0 THEN -n ELSE n

RECURSIVE GCD(_, _)
GCD(a, b) == IF b = 0 THEN a ELSE GCD(b, a % b)

\* the rational n/d in lowest terms, d > 0
Rat(n, d) ==
    LET g == GCD(Abs(n), d)
    IN  IF n = 0 THEN <<0, 1>> ELSE <<n \div g, d \div g>>

FromInt(n) == <<n, 1>>

\* a * b, cross-reduced before multiplying
RMul(a, b) ==
    LET g1 == GCD(Abs(a[1]), b[2])
        g2 == GCD(Abs(b[1]), a[2])
    IN  IF a[2] = 0 \/ b[2] = 0 THEN <<0, 0>>
        ELSE IF a[1] = 0 \/ b[1] = 0 THEN <<0, 1>>
        ELSE <<(a[1] \div g1) * (b[1] \div g2), (a[2] \div g2) * (b[2] \div g1)>>

RAdd(a, b) ==
    LET g == GCD(a[2], b[2])
    IN  IF a[2] = 0 \/ b[2] = 0 THEN <<0, 0>>
        ELSE Rat(a[1] * (b[2] \div g) + b[1] * (a[2] \div g), (a[2] \div g) * b[2])

RNeg(a) == <<-a[1], a[2]>>

RSub(a, b) == RAdd(a, RNeg(b))

\* the outcome of a Python division by zero (ZeroDivisionError); it
\* propagates through the operations above
ZeroDivisionError == <<0, 0>>

\* a / b; dividing by zero raises
RDiv(a, b) ==
    IF b[1] = 0 THEN ZeroDivisionError
    ELSE IF b[1] > 0 THEN RMul(a, <<b[2], b[1]>>)
    ELSE RMul(a, <<-b[2], -b[1]>>)

RLeq(a, b) == RSub(a, b)[1] <= 0

RZero == <<0, 1>>

\* ---------------------------------------------------------------------
\* constants (app.py 44-69, app2.py 59-87)
\* ---------------------------------------------------------------------
KG_PER_TON == FromInt(1000)

\* kg CO2e per unit
EF ==
    [cars |-> Rat(18, 100), trucks |-> Rat(90, 100), buses |-> Rat(110, 100),
     forklifts |-> FromInt(4), planes |-> FromInt(9000), lighting |-> Rat(42, 100),
     heating |-> Rat(20, 100), cooling |-> Rat(42, 100), computing |-> Rat(42, 100)]

CATS ==
    <<"cars", "trucks", "buses", "forklifts", "planes", "lighting", "heating",
      "cooling", "computing", "subcontractors">>

\* the nine numeric keys of an inputs dict
NumKeys ==
    {"cars_km", "trucks_km", "buses_km", "forklifts_hr", "planes_hr",
     "lighting_kwh", "heating_kwhth", "cooling_kwh", "computing_kwh"}

\* the keys of a sliders dict
SliderKeys == {"ev_share_pct", "km_reduction_pct", "plane_load_pct"}

\* SAMPLE["inputs"], with the list given by value
SampleInputs ==
    [cars_km |-> 180000, trucks_km |-> 100000, buses_km |-> 60000,
     forklifts_hr |-> 1500, planes_hr |-> 250, lighting_kwh |-> 90000,
     heating_kwhth |-> 40000, cooling_kwh |-> 220000, computing_kwh |-> 60000,
     subcontractors_tons |-> <<120, 45, 30>>]

\* SAMPLE["sliders"]
SampleSliders == [ev_share_pct |-> 20, km_reduction_pct |-> 5, plane_load_pct |-> 50]

\* ---------------------------------------------------------------------
\* calculations (app.py 72-93, app2.py 90-118)
\* An inputs value i is a record of the nine measures and the sequence
\* subcontractors_tons; s is a record of the three percentages.
\* ---------------------------------------------------------------------
tons_from_kg(kg) == RDiv(kg, KG_PER_TON)

\* Python sum(): 0 + x1 + x2 + ...
RECURSIVE sum(_)
sum(xs) == IF xs = <<>> THEN RZero
           ELSE RAdd(sum(SubSeq(xs, 1, Len(xs) - 1)), FromInt(xs[Len(xs)]))

\* slip: the subcontractor tons converted as if they were kilograms
compute_baseline_sub_kg(i) ==
    [cars           |-> tons_from_kg(RMul(FromInt(i.cars_km), EF.cars)),
     trucks         |-> tons_from_kg(RMul(FromInt(i.trucks_km), EF.trucks)),
     buses          |-> tons_from_kg(RMul(FromInt(i.buses_km), EF.buses)),
     forklifts      |-> tons_from_kg(RMul(FromInt(i.forklifts_hr), EF.forklifts)),
     planes         |-> tons_from_kg(RMul(FromInt(i.planes_hr), EF.planes)),
     lighting       |-> tons_from_kg(RMul(FromInt(i.lighting_kwh), EF.lighting)),
     heating        |-> tons_from_kg(RMul(FromInt(i.heating_kwhth), EF.heating)),
     cooling        |-> tons_from_kg(RMul(FromInt(i.cooling_kwh), EF.cooling)),
     computing      |-> tons_from_kg(RMul(FromInt(i.computing_kwh), EF.computing)),
     subcontractors |-> tons_from_kg(sum(i.subcontractors_tons))]

compute_baseline(i) ==
    [cars           |-> tons_from_kg(RMul(FromInt(i.cars_km), EF.cars)),
     trucks         |-> tons_from_kg(RMul(FromInt(i.trucks_km), EF.trucks)),
     buses          |-> tons_from_kg(RMul(FromInt(i.buses_km), EF.buses)),
     forklifts      |-> tons_from_kg(RMul(FromInt(i.forklifts_hr), EF.forklifts)),
     planes         |-> tons_from_kg(RMul(FromInt(i.planes_hr), EF.planes)),
     lighting       |-> tons_from_kg(RMul(FromInt(i.lighting_kwh), EF.lighting)),
     heating        |-> tons_from_kg(RMul(FromInt(i.heating_kwhth), EF.heating)),
     cooling        |-> tons_from_kg(RMul(FromInt(i.cooling_kwh), EF.cooling)),
     computing      |-> tons_from_kg(RMul(FromInt(i.computing_kwh), EF.computing)),
     subcontractors |-> sum(i.subcontractors_tons)]

\* slip: the plane load factor read as a reduction
compute_optimized_load_cut(i, s) ==
    LET base      == compute_baseline(i)
        km_cut    == RSub(FromInt(1), RDiv(FromInt(s.km_reduction_pct), FromInt(100)))
        km_opt    == RMul(FromInt(i.cars_km), km_cut)
        intensity == RSub(FromInt(1),
                          RMul(Rat(70, 100), RDiv(FromInt(s.ev_share_pct), FromInt(100))))
    IN  [base EXCEPT
           !.cars   = tons_from_kg(RMul(RMul(km_opt, EF.cars), intensity)),
           !.planes = tons_from_kg(RMul(RMul(FromInt(i.planes_hr), EF.planes),
                                        RSub(FromInt(1), RDiv(FromInt(s.plane_load_pct), FromInt(100)))))]

\* slip: the distance reduction applied to the trucks as well
compute_optimized_trucks(i, s) ==
    LET base      == compute_baseline(i)
        km_cut    == RSub(FromInt(1), RDiv(FromInt(s.km_reduction_pct), FromInt(100)))
        km_opt    == RMul(FromInt(i.cars_km), km_cut)
        intensity == RSub(FromInt(1),
                          RMul(Rat(70, 100), RDiv(FromInt(s.ev_share_pct), FromInt(100))))
    IN  [base EXCEPT
           !.cars   = tons_from_kg(RMul(RMul(km_opt, EF.cars), intensity)),
           !.trucks = tons_from_kg(RMul(RMul(FromInt(i.trucks_km), km_cut), EF.trucks)),
           !.planes = tons_from_kg(RMul(RMul(FromInt(i.planes_hr), EF.planes),
                                        RDiv(FromInt(s.plane_load_pct), FromInt(100))))]

\* slip: the EV discount added instead of subtracted
compute_optimized_ev_sign(i, s) ==
    LET base      == compute_baseline(i)
        km_cut    == RSub(FromInt(1), RDiv(FromInt(s.km_reduction_pct), FromInt(100)))
        km_opt    == RMul(FromInt(i.cars_km), km_cut)
        intensity == RAdd(FromInt(1),
                          RMul(Rat(70, 100), RDiv(FromInt(s.ev_share_pct), FromInt(100))))
    IN  [base EXCEPT
           !.cars   = tons_from_kg(RMul(RMul(km_opt, EF.cars), intensity)),
           !.planes = tons_from_kg(RMul(RMul(FromInt(i.planes_hr), EF.planes),
                                        RDiv(FromInt(s.plane_load_pct), FromInt(100))))]

compute_optimized(i, s) ==
    LET base      == compute_baseline(i)
        km_opt    == RMul(FromInt(i.cars_km),
                          RSub(FromInt(1), RDiv(FromInt(s.km_reduction_pct), FromInt(100))))
        intensity == RSub(FromInt(1),
                          RMul(Rat(70, 100), RDiv(FromInt(s.ev_share_pct), FromInt(100))))
    IN  [base EXCEPT
           !.cars   = tons_from_kg(RMul(RMul(km_opt, EF.cars), intensity)),
           !.planes = tons_from_kg(RMul(RMul(FromInt(i.planes_hr), EF.planes),
                                        RDiv(FromInt(s.plane_load_pct), FromInt(100))))]

RECURSIVE SumCats(_, _)
SumCats(d, n) == IF n = 0 THEN RZero ELSE RAdd(SumCats(d, n - 1), d[CATS[n]])

total(d) == SumCats(d, Len(CATS))

\* slip: the decimals cut instead of rounded
Fmt1_truncate(x) ==
    LET w == x[1] \div x[2]
    IN  w * 10 + ((x[1] - w * x[2]) * 10) \div x[2]

\* f"{x:,.1f}": x rounded to one decimal (ties to even), as a number of tenths
Fmt1(x) ==
    LET w == x[1] \div x[2]
        n == (x[1] - w * x[2]) * 10
        q == n \div x[2]
        r == 2 * (n - q * x[2])
        t == IF r < x[2] THEN q
             ELSE IF r > x[2] THEN q + 1
             ELSE IF (w * 10 + q) % 2 = 0 THEN q ELSE q + 1
    IN  w * 10 + t

\* slip: the division without its guard
pct_unguarded(reduction, base_total) ==
    RMul(RDiv(reduction, base_total), FromInt(100))

\* pct = (reduction / base_total * 100) if base_total else 0
pct(reduction, base_total) ==
    IF base_total # RZero THEN RMul(RDiv(reduction, base_total), FromInt(100))
    ELSE RZero

\* the calculate block (app.py 136-152, app2.py 205-243) on inputs i, sliders s
calculate(i, s) ==
    LET base       == compute_baseline(i)
        opt        == compute_optimized(i, s)
        base_total == total(base)
        opt_total  == total(opt)
        reduction  == RSub(base_total, opt_total)
    IN  [done |-> TRUE, base |-> base, opt |-> opt,
         base_total |-> base_total, opt_total |-> opt_total,
         reduction |-> reduction, pct |-> pct(reduction, base_total),
         base_metric |-> Fmt1(base_total), opt_metric |-> Fmt1(opt_total)]

\* nothing calculated in this run (calc is False)
NoOut == [done |-> FALSE]

\* ---------------------------------------------------------------------
\* State
\* ---------------------------------------------------------------------
VARIABLES
    variant,        \* which file is served: "app" (app.py) or "app2" (app2.py)
    dicts,          \* the dict objects: object id -> contents
    lists,          \* the list objects: object id -> contents
    session_state,  \* per session: the ids st.session_state.inputs / .sliders (0: key absent)
    loc,            \* per session: the dicts the script's variables i and s are bound to
    pc,             \* per session: position of its script run
    act,            \* per session: the interaction that started its latest run
    out,            \* per session: what the latest run calculated
    runs,           \* script runs started so far
    cIn, cAdj, cOut, cSets   \* the calculator on its own (SpecCalc)

svars == <<variant, dicts, lists, session_state, loc, pc, act, out, runs>>
cvars == <<cIn, cAdj, cOut, cSets>>
vars  == <<variant, dicts, lists, session_state, loc, pc, act, out, runs,
           cIn, cAdj, cOut, cSets>>

\* script runs explored
MaxRuns == 3

Sessions == {"A", "B"}

\* what a user may type into a number field / drag a slider to
UserNumbers == {-1000, 0, 1000}
UserPcts    == {0, 50, 100, 150}

\* SAMPLE is a module-level object: ids of SAMPLE["inputs"], SAMPLE["sliders"]
\* in dicts, and of the list SAMPLE["inputs"]["subcontractors_tons"] in lists
SAMPLE == [inputs |-> 1, sliders |-> 2, subcontractors_tons |-> 1]

\* the smallest unused object id
FreshId(h) ==
    CHOOSE n \in 1..(Cardinality(DOMAIN h) + 1) :
        /\ n \notin DOMAIN h
        /\ \A m \in 1..(n - 1) : m \in DOMAIN h

\* slip: the dict itself instead of a copy of it
copy_alias(ds, ref) == [dicts |-> ds, ref |-> ref]

\* dict.copy(): a new dict with the same items (a list item is the same list)
copy(ds, ref) ==
    LET n == FreshId(ds)
    IN  [dicts |-> (n :> ds[ref]) @@ ds, ref |-> n]

IsInputs(d) == "subcontractors_tons" \in DOMAIN d

\* the inputs dict `ref` by value, its list item read through
InputsOf(ds, ls, ref) ==
    [ds[ref] EXCEPT !.subcontractors_tons = ls[ds[ref].subcontractors_tons]]

\* objects no variable refers to are dropped
LiveDicts(ss, lc) ==
    ({SAMPLE.inputs, SAMPLE.sliders}
        \cup {ss[u].inputs : u \in Sessions} \cup {ss[u].sliders : u \in Sessions}
        \cup {lc[u].i : u \in Sessions} \cup {lc[u].s : u \in Sessions}) \ {0}

Collect(ds, ls, ss, lc) ==
    LET live  == LiveDicts(ss, lc) \cap DOMAIN ds
        lived == [r \in live |-> ds[r]]
        livel == {lived[r].subcontractors_tons : r \in {x \in live : IsInputs(lived[x])}}
    IN  [dicts |-> lived, lists |-> [r \in livel \cap DOMAIN ls |-> ls[r]]]

NoAct == [kind |-> "none", key |-> "", idx |-> 0, val |-> 0]

\* ---------------------------------------------------------------------
\* One script run of a session (Streamlit runs the script top to bottom
\* on the page's opening and on every interaction).  A run is three steps:
\* session state and buttons (app.py 101-109, app2.py 125-145), the widgets
\* (app.py 115-134, app2.py 153-202), the calculate block (136-, 205-).
\* Runs of different sessions interleave between the steps.
\* ---------------------------------------------------------------------

\* slip: the field without its lower bound
number_input_unbounded(min_value, v) == TRUE

\* number_input(label, 0.0, ...): the field yields no value below min_value
number_input_accepts(min_value, v) == v >= min_value

\* slip: the slider without its range
slider_unbounded(min_value, max_value, v) == TRUE

\* st.slider(label, 0, 100, ...): the slider yields a value in the range only
slider_accepts(min_value, max_value, v) == min_value <= v /\ v <= max_value

\* slip: the calculate block taken in every run
calc_always(a) == TRUE

\* calc = st.button("Calculate"): true in the run the press started
calc_clicked(a) == a.kind = "calc"

\* app.py 101-103, app2.py 125-130: the state a run of session u works on
Bound(u) ==
    LET ss == session_state[u]
        c1 == IF ss.inputs = 0 THEN copy(dicts, SAMPLE.inputs)
              ELSE [dicts |-> dicts, ref |-> ss.inputs]
        c2 == IF ss.sliders = 0 THEN copy(c1.dicts, SAMPLE.sliders)
              ELSE [dicts |-> c1.dicts, ref |-> ss.sliders]
    IN  [dicts |-> c2.dicts, lists |-> lists, inputs |-> c1.ref, sliders |-> c2.ref,
         i |-> c1.ref, s |-> c2.ref]

\* the body of `if st.button("Load Sample Data")`; app2.py rebinds i, s
load_sample(st) ==
    LET l1 == copy(st.dicts, SAMPLE.inputs)
        l2 == copy(l1.dicts, SAMPLE.sliders)
    IN  [st EXCEPT !.dicts = l2.dicts, !.inputs = l1.ref, !.sliders = l2.ref,
                   !.i = IF variant = "app2" THEN l1.ref ELSE @,
                   !.s = IF variant = "app2" THEN l2.ref ELSE @]

\* slip: the load factor reset to 0 as the other two
ResetSliders_all_zero == [ev_share_pct |-> 0, km_reduction_pct |-> 0, plane_load_pct |-> 0]

\* the sliders dict Reset writes
ResetSliders == [ev_share_pct |-> 0, km_reduction_pct |-> 0, plane_load_pct |-> 100]

\* the body of `if st.button("Reset")`; app2.py rebinds i, s.
\* isinstance(v, (int, float)) holds of the values of the nine numeric keys.
reset(st) ==
    LET old == st.dicts[st.i]
        nl  == FreshId(st.lists)
        ni  == FreshId(st.dicts)
        d1  == (ni :> [k \in DOMAIN old |-> IF k \in NumKeys THEN 0 ELSE nl]) @@ st.dicts
        ns  == FreshId(d1)
        d2  == (ns :> ResetSliders) @@ d1
    IN  [st EXCEPT !.dicts = d2, !.lists = (nl :> <<0, 0, 0>>) @@ @,
                   !.inputs = ni, !.sliders = ns,
                   !.i = IF variant = "app2" THEN ni ELSE @,
                   !.s = IF variant = "app2" THEN ns ELSE @]

\* first step of a run of session u started by interaction a, leaving st
StartRun(u, a, st) ==
    LET ss == [session_state EXCEPT ![u] = [inputs |-> st.inputs, sliders |-> st.sliders]]
        lc == [loc EXCEPT ![u] = [i |-> st.i, s |-> st.s]]
        gc == Collect(st.dicts, st.lists, ss, lc)
    IN  /\ pc[u] = "idle"
        /\ runs < MaxRuns
        /\ runs' = runs + 1
        /\ session_state' = ss
        /\ loc' = lc
        /\ dicts' = gc.dicts
        /\ lists' = gc.lists
        /\ act' = [act EXCEPT ![u] = a]
        /\ out' = [out EXCEPT ![u] = NoOut]
        /\ pc' = [pc EXCEPT ![u] = "widgets"]
        /\ UNCHANGED <<variant, cIn, cAdj, cOut, cSets>>

Opened(u) == session_state[u].inputs # 0

\* the user opens the page: the session's first run
Open(u) ==
    /\ ~Opened(u)
    /\ StartRun(u, [NoAct EXCEPT !.kind = "open"], Bound(u))

\* the user types v into the number field of key k
EditNumber(u) ==
    /\ Opened(u)
    /\ \E k \in NumKeys, v \in UserNumbers :
         /\ number_input_accepts(0, v)
         /\ v # dicts[session_state[u].inputs][k]
         /\ StartRun(u, [kind |-> "edit", key |-> k, idx |-> 0, val |-> v], Bound(u))

\* the user types v into the field of subcontractor n
EditSubcontractor(u) ==
    /\ Opened(u)
    /\ \E n \in 1..3, v \in UserNumbers :
         /\ number_input_accepts(0, v)
         /\ v # InputsOf(dicts, lists, session_state[u].inputs).subcontractors_tons[n]
         /\ StartRun(u, [kind |-> "edit", key |-> "subcontractors_tons",
                         idx |-> n, val |-> v], Bound(u))

\* the user drags the slider of key k to v
Slide(u) ==
    /\ Opened(u)
    /\ \E k \in SliderKeys, v \in UserPcts :
         /\ slider_accepts(0, 100, v)
         /\ v # dicts[session_state[u].sliders][k]
         /\ StartRun(u, [kind |-> "slide", key |-> k, idx |-> 0, val |-> v], Bound(u))

LoadSampleData(u) ==
    /\ Opened(u)
    /\ StartRun(u, [NoAct EXCEPT !.kind = "load"], load_sample(Bound(u)))

Reset(u) ==
    /\ Opened(u)
    /\ StartRun(u, [NoAct EXCEPT !.kind = "reset"], reset(Bound(u)))

Calculate(u) ==
    /\ Opened(u)
    /\ StartRun(u, [NoAct EXCEPT !.kind = "calc"], Bound(u))

\* the widgets write their values into the dicts i and s are bound to
Widgets(u) ==
    LET a    == act[u]
        i    == loc[u].i
        s    == loc[u].s
        old  == dicts[i]
        olds == dicts[s]
        subs == lists[old.subcontractors_tons]
        nl   == FreshId(lists)
        sub  == [n \in 1..3 |->
                   IF a.kind = "edit" /\ a.key = "subcontractors_tons" /\ a.idx = n
                   THEN a.val ELSE subs[n]]
        newi == [k \in DOMAIN old |->
                   IF k \notin NumKeys THEN nl
                   ELSE IF a.kind = "edit" /\ a.key = k THEN a.val ELSE old[k]]
        d1   == [dicts EXCEPT ![i] = newi]
        news == [k \in DOMAIN olds |->
                   IF a.kind = "slide" /\ a.key = k THEN a.val ELSE d1[s][k]]
        d2   == [d1 EXCEPT ![s] = news]
        gc   == Collect(d2, (nl :> sub) @@ lists, session_state, loc)
    IN  /\ pc[u] = "widgets"
        /\ dicts' = gc.dicts
        /\ lists' = gc.lists
        /\ pc' = [pc EXCEPT ![u] = "calc"]
        /\ UNCHANGED <<variant, session_state, loc, act, out, runs, cIn, cAdj, cOut, cSets>>

\* the run's end: the locals i, s go away
EndOfRun(u, o) ==
    LET lc == [loc EXCEPT ![u] = [i |-> 0, s |-> 0]]
        gc == Collect(dicts, lists, session_state, lc)
    IN  /\ pc[u] = "calc"
        /\ out' = [out EXCEPT ![u] = o]
        /\ loc' = lc
        /\ dicts' = gc.dicts
        /\ lists' = gc.lists
        /\ pc' = [pc EXCEPT ![u] = "idle"]
        /\ UNCHANGED <<variant, session_state, act, runs, cIn, cAdj, cOut, cSets>>

\* `if calc:` taken
CalcBlock(u) ==
    /\ calc_clicked(act[u])
    /\ pc[u] = "calc"
    /\ EndOfRun(u, calculate(InputsOf(dicts, lists, loc[u].i), dicts[loc[u].s]))

\* `if calc:` not taken
NoCalc(u) ==
    /\ ~calc_clicked(act[u])
    /\ EndOfRun(u, NoOut)

ZeroInputs ==
    [cars_km |-> 0, trucks_km |-> 0, buses_km |-> 0, forklifts_hr |-> 0,
     planes_hr |-> 0, lighting_kwh |-> 0, heating_kwhth |-> 0, cooling_kwh |-> 0,
     computing_kwh |-> 0, subcontractors_tons |-> <<0, 0, 0>>]

InitSessions ==
    /\ variant \in {"app", "app2"}
    /\ dicts = (SAMPLE.inputs :> [SampleInputs EXCEPT
                                    !.subcontractors_tons = SAMPLE.subcontractors_tons])
               @@ (SAMPLE.sliders :> SampleSliders)
    /\ lists = (SAMPLE.subcontractors_tons :> SampleInputs.subcontractors_tons)
    /\ session_state = [u \in Sessions |-> [inputs |-> 0, sliders |-> 0]]
    /\ loc = [u \in Sessions |-> [i |-> 0, s |-> 0]]
    /\ pc = [u \in Sessions |-> "idle"]
    /\ act = [u \in Sessions |-> NoAct]
    /\ out = [u \in Sessions |-> NoOut]
    /\ runs = 0

Init ==
    /\ InitSessions
    /\ cIn = ZeroInputs
    /\ cAdj = ResetSliders
    /\ cOut = NoOut
    /\ cSets = 0

Next ==
    \E u \in Sessions :
        \/ Open(u)
        \/ EditNumber(u)
        \/ EditSubcontractor(u)
        \/ Slide(u)
        \/ LoadSampleData(u)
        \/ Reset(u)
        \/ Calculate(u)
        \/ Widgets(u)
        \/ CalcBlock(u)
        \/ NoCalc(u)

Spec == Init /\ [][Next]_vars

\* ---------------------------------------------------------------------
\* The calculator on its own: inputs and adjustments drawn from bounded
\* sets (out-of-range percentages and a negative measure included).
\* ---------------------------------------------------------------------

\* how many fields of the starting record are overwritten
MaxSet == 1

CalcVals == {-1000, 0, 1000, 2000}
PctVals  == {-10, 0, 20, 50, 100, 150}

InitCalc ==
    /\ InitSessions
    /\ variant = "app"
    /\ cIn \in {ZeroInputs, SampleInputs}
    /\ cAdj \in [SliderKeys -> PctVals]
    /\ cOut = NoOut
    /\ cSets = 0

SetMeasure ==
    /\ cSets < MaxSet
    /\ cOut = NoOut
    /\ \E k \in NumKeys, v \in CalcVals :
         cIn' = [cIn EXCEPT ![k] = v]
    /\ cSets' = cSets + 1
    /\ UNCHANGED <<cAdj, cOut>>
    /\ UNCHANGED svars

SetSubcontractor ==
    /\ cSets < MaxSet
    /\ cOut = NoOut
    /\ \E n \in 1..3, v \in CalcVals :
         cIn' = [cIn EXCEPT !.subcontractors_tons[n] = v]
    /\ cSets' = cSets + 1
    /\ UNCHANGED <<cAdj, cOut>>
    /\ UNCHANGED svars

Compute ==
    /\ cOut = NoOut
    /\ cOut' = [done |-> TRUE, base |-> compute_baseline(cIn),
                opt |-> compute_optimized(cIn, cAdj)]
    /\ UNCHANGED <<cIn, cAdj, cSets>>
    /\ UNCHANGED svars

NextCalc == SetMeasure \/ SetSubcontractor \/ Compute

SpecCalc == InitCalc /\ [][NextCalc]_vars

\* ---------------------------------------------------------------------
\* Properties
\* ---------------------------------------------------------------------
FactorCats ==
    {"cars", "trucks", "buses", "forklifts", "planes", "lighting", "heating",
     "cooling", "computing"}

TenCats == FactorCats \cup {"subcontractors"}

\* the activity measure of each factor-driven category
MeasureOf ==
    [cars |-> "cars_km", trucks |-> "trucks_km", buses |-> "buses_km",
     forklifts |-> "forklifts_hr", planes |-> "planes_hr", lighting |-> "lighting_kwh",
     heating |-> "heating_kwhth", cooling |-> "cooling_kwh", computing |-> "computing_kwh"]

\* the documented emission factors, in hundredths of a kg per unit
FactorHundredths ==
    [cars |-> 18, trucks |-> 90, buses |-> 110, forklifts |-> 400, planes |-> 900000,
     lighting |-> 42, heating |-> 20, cooling |-> 42, computing |-> 42]

IdentityAdjustment == [ev_share_pct |-> 0, km_reduction_pct |-> 0, plane_load_pct |-> 100]

NonNegative(i) ==
    /\ \A k \in NumKeys : i[k] >= 0
    /\ \A n \in 1..3 : i.subcontractors_tons[n] >= 0

InRange(s) == \A k \in SliderKeys : 0 <= s[k] /\ s[k] <= 100

\* C1: with the adjustments ev_share_pct = 0, km_reduction_pct = 0 and
\* plane_load_pct = 100 the optimized breakdown equals the baseline
\* breakdown exactly, on all ten categories, for every inputs record.
C1_IdentityAdjustment ==
    (cOut.done /\ cAdj = IdentityAdjustment) =>
        \A c \in TenCats : cOut.opt[c] = cOut.base[c]

C1_Witness ==
    /\ cOut.done
    /\ cAdj = IdentityAdjustment
    /\ cIn.cars_km > 0
    /\ cIn.planes_hr > 0
    /\ cOut.opt.planes # RZero

\* C2: the baseline breakdown has exactly the ten category keys; each of the
\* nine factor-driven entries is measure x factor / 1000 and the
\* subcontractors entry is the plain sum of the subcontractor values.
C2_Baseline ==
    cOut.done =>
        /\ DOMAIN cOut.base = TenCats
        /\ \A c \in FactorCats :
             /\ cOut.base[c][2] > 0
             /\ cOut.base[c][1] * 100000
                  = cIn[MeasureOf[c]] * FactorHundredths[c] * cOut.base[c][2]
        /\ cOut.base.subcontractors
             = <<cIn.subcontractors_tons[1] + cIn.subcontractors_tons[2]
                   + cIn.subcontractors_tons[3], 1>>

C2_Witness ==
    /\ cOut.done
    /\ cIn.cars_km = 180000
    /\ cIn.subcontractors_tons = <<120, 45, 30>>
    /\ cOut.base.subcontractors = <<195, 1>>
    /\ cOut.base.cars = <<162, 5>>

\* C4: whatever the inputs and the adjustments (percentages outside [0,100]
\* included), the eight categories other than cars and planes are the same
\* in the optimized breakdown as in the baseline breakdown.
C4_Frame ==
    cOut.done =>
        \A c \in TenCats \ {"cars", "planes"} : cOut.opt[c] = cOut.base[c]

C4_Witness ==
    /\ cOut.done
    /\ cAdj.km_reduction_pct = 150
    /\ cAdj.plane_load_pct = -10
    /\ cIn.trucks_km > 0
    /\ cOut.opt.cars # cOut.base.cars
    /\ cOut.opt.planes # cOut.base.planes

\* percentages a monotonicity check compares against
MonoPcts == {0, 1, 20, 50, 99, 100}

SessionInputs(u) == InputsOf(dicts, lists, session_state[u].inputs)
SessionSliders(u) == dicts[session_state[u].sliders]

\* C3: Calculate on the sample fixture (SAMPLE inputs, sliders 20 / 5 / 50)
\* shows a baseline total of 2802.8 and an optimized total of 1671.9 tons.
C3_SampleTotals ==
    \A u \in Sessions :
        (out[u].done /\ SessionInputs(u) = SampleInputs /\ SessionSliders(u) = SampleSliders)
            => (out[u].base_metric = 28028 /\ out[u].opt_metric = 16719)

C3_Witness ==
    \E u \in Sessions :
        /\ out[u].done
        /\ act[u].kind = "calc"
        /\ SessionInputs(u) = SampleInputs
        /\ SessionSliders(u) = SampleSliders

\* C6: the percent reduction is (base_total - opt_total) / base_total x 100
\* when base_total is not zero and 0 when it is zero; Calculate never
\* divides by zero.
C6_PercentReduction ==
    \A u \in Sessions :
        out[u].done =>
            /\ out[u].pct # ZeroDivisionError
            /\ out[u].pct[2] > 0
            /\ out[u].base_total = RZero => out[u].pct = RZero
            /\ out[u].base_total # RZero =>
                 RMul(out[u].pct, out[u].base_total)
                   = RMul(RSub(out[u].base_total, out[u].opt_total), FromInt(100))

C6_Witness ==
    \E u \in Sessions :
        /\ out[u].done
        /\ SessionInputs(u) = ZeroInputs
        /\ out[u].base_total = RZero
        /\ out[u].pct = RZero

DictsOf(u) == {session_state[u].inputs, session_state[u].sliders, loc[u].i, loc[u].s} \ {0}
ListsOf(u) == {dicts[r].subcontractors_tons : r \in {x \in DictsOf(u) : IsInputs(dicts[x])}}

\* C8 as stated: a session shares no mutable object, dict or list, with
\* another session or with SAMPLE.
C8_NoSharedObject ==
    \A u \in Sessions :
        /\ DictsOf(u) \cap {SAMPLE.inputs, SAMPLE.sliders} = {}
        /\ SAMPLE.subcontractors_tons \notin ListsOf(u)
        /\ \A v \in Sessions \ {u} :
             DictsOf(u) \cap DictsOf(v) = {} /\ ListsOf(u) \cap ListsOf(v) = {}

\* everything session v can read, by value
View(v) ==
    [inputs  |-> IF session_state[v].inputs = 0 THEN <<>>
                 ELSE <<InputsOf(dicts, lists, session_state[v].inputs)>>,
     sliders |-> IF session_state[v].sliders = 0 THEN <<>>
                 ELSE <<dicts[session_state[v].sliders]>>,
     i       |-> IF loc[v].i = 0 THEN <<>> ELSE <<InputsOf(dicts, lists, loc[v].i)>>,
     s       |-> IF loc[v].s = 0 THEN <<>> ELSE <<dicts[loc[v].s]>>,
     out     |-> out[v]]

SampleView ==
    [inputs |-> InputsOf(dicts, lists, SAMPLE.inputs), sliders |-> dicts[SAMPLE.sliders]]

\* C8, amended: the dicts of a session are shared with no other session and
\* not with SAMPLE (a list may be), and a step of one session changes neither
\* the values another session reads nor the values of SAMPLE.
C8_Isolation ==
    [][ /\ \A u \in Sessions :
             /\ DictsOf(u) \cap {SAMPLE.inputs, SAMPLE.sliders} = {}
             /\ \A v \in Sessions \ {u} : DictsOf(u) \cap DictsOf(v) = {}
        /\ SampleView' = SampleView
        /\ \A v \in Sessions : pc'[v] = pc[v] => View(v)' = View(v) ]_vars

C8_Witness ==
    \E u \in Sessions : \E v \in Sessions \ {u} :
        /\ Opened(u)
        /\ Opened(v)
        /\ pc[v] # "idle"
        /\ act[u].kind \in {"edit", "slide", "reset"}
        /\ pc[u] # "widgets"
        /\ SessionInputs(u) # SessionInputs(v) \/ SessionSliders(u) # SessionSliders(v)
        /\ SampleView = [inputs |-> SampleInputs, sliders |-> SampleSliders]

\* C9: with the inputs and percentages the widgets let through (inputs >= 0,
\* percentages in [0,100]) all ten entries of the baseline and of the
\* optimized breakdown are >= 0.
C9_NonNegative ==
    \A u \in Sessions :
        out[u].done =>
            \A c \in TenCats :
                /\ out[u].base[c][1] >= 0 /\ out[u].base[c][2] > 0
                /\ out[u].opt[c][1] >= 0 /\ out[u].opt[c][2] > 0

C9_Witness ==
    \E u \in Sessions :
        /\ out[u].done
        /\ SessionSliders(u).km_reduction_pct = 100
        /\ out[u].opt.cars = RZero
        /\ out[u].base.cars[1] > 0

Interactions == {"edit", "slide", "load", "reset", "calc"}

\* C10 as stated: every interaction (edit, slider, Load Sample Data, Reset,
\* Calculate) runs the calculation on the session's inputs and sliders.
C10_EveryInteraction ==
    \A u \in Sessions :
        (pc[u] = "idle" /\ act[u].kind \in Interactions) =>
            /\ out[u].done
            /\ out[u].base = compute_baseline(SessionInputs(u))
            /\ out[u].opt = compute_optimized(SessionInputs(u), SessionSliders(u))

\* C10, amended: every interaction runs the script, but the calculation is
\* made only in the run a press of Calculate starts, and then on the
\* session's current inputs and sliders; an edit, a slider move, Load Sample
\* Data and Reset calculate nothing.
C10_OnlyCalculate ==
    \A u \in Sessions :
        (pc[u] = "idle" /\ act[u].kind \in Interactions \cup {"open"}) =>
            /\ out[u].done <=> act[u].kind = "calc"
            /\ out[u].done =>
                 /\ out[u].base = compute_baseline(SessionInputs(u))
                 /\ out[u].opt = compute_optimized(SessionInputs(u), SessionSliders(u))
                 /\ out[u].base_total = total(out[u].base)
                 /\ out[u].opt_total = total(out[u].opt)

C10_Witness ==
    \E u \in Sessions :
        /\ pc[u] = "idle"
        /\ act[u].kind = "calc"
        /\ out[u].done
        /\ SessionInputs(u) # SampleInputs
        /\ out[u].base_total # RZero

\* C11: in every state the widgets let the session reach (inputs >= 0,
\* percentages in [0,100]) Calculate gives an optimized total that is at
\* most the baseline total: the reduction shown is >= 0 and the percent
\* reduction lies between 0 and 100.
C11_ReductionInRange ==
    \A u \in Sessions :
        out[u].done =>
            /\ RLeq(out[u].opt_total, out[u].base_total)
            /\ out[u].reduction[2] > 0 /\ out[u].reduction[1] >= 0
            /\ out[u].pct[2] > 0
            /\ RLeq(RZero, out[u].pct)
            /\ RLeq(out[u].pct, FromInt(100))

C11_Witness ==
    \E u \in Sessions :
        /\ out[u].done
        /\ act[u].kind = "calc"
        /\ NonNegative(SessionInputs(u))
        /\ InRange(SessionSliders(u))
        /\ SessionSliders(u) # SampleSliders
        /\ out[u].opt_total # out[u].base_total
        /\ out[u].pct # RZero

====
